---- MODULE Spec2Model ----
(***************************************************************************)
(* Model of SSOHandler (npm/src/controller/sso-handler.ts): connection     *)
(* resolution, the SAML and OIDC request builders, the SAML response       *)
(* builder and the relay-state session protocol.                           *)
(*                                                                         *)
(* JavaScript values that may be undefined are sequences of length at most *)
(* one: <<>> is undefined and <<v>> is the value v.  Strings built by      *)
(* concatenation are sequences of their pieces.                            *)
(***************************************************************************)
EXTENDS Integers, Sequences, FiniteSets, TLC

VARIABLES
  connection,   \* this.connection: the connection store, in index order
  session,      \* this.session: the session store, key -> record
  opts,         \* this.opts: the read-only configuration
  resolution,   \* the resolveConnection call in progress or just finished
  pc,           \* per caller: the await its builder call is suspended at
  args,         \* per caller: the arguments of its call
  local,        \* per caller: the local variables of its call
  ret,          \* per caller: what the call returned or threw
  calls,        \* the number of calls made to the builders so far
  drawn         \* history: how often each session identifier was drawn

vars == <<connection, session, opts, resolution, pc, args, local, ret, calls, drawn>>

----------------------------------------------------------------------------
(* JavaScript values *)

Undefined == <<>>

Some(v) == <<v>>

\* if (x): a string is truthy when it is defined and not empty
Truthy(o) == o # Undefined /\ o[1] # ""

\* At with the index taken from one
AtFromOne(list, i) == IF i \in DOMAIN list /\ i > 0 THEN Some(list[i]) ELSE Undefined

\* connections[i], undefined out of range
At(list, i) == IF i + 1 \in DOMAIN list THEN Some(list[i + 1]) ELSE Undefined

Elements(list) == { list[i] : i \in DOMAIN list }

RECURSIVE FindFrom(_, _, _)
FindFrom(list, i, clientID) ==
  IF i > Len(list) THEN Undefined
  ELSE IF list[i].clientID = clientID THEN Some(list[i])
  ELSE FindFrom(list, i + 1, clientID)

\* connections.find((c) => c.clientID === idp_hint)
Find(list, clientID) == FindFrom(list, 1, clientID)

\* { ...a, ...b } with the keys of a kept
SpreadKeepingFirst(a, b) == a @@ b

\* { ...a, ...b }: the keys of b win
Spread(a, b) == b @@ a

NoKeys == [k \in {} |-> ""]

----------------------------------------------------------------------------
(* Errors *)

JacksonError(message, statusCode) ==
  [type |-> "JacksonError", message |-> message, statusCode |-> Some(statusCode)]

\* an exception of a collaborator, as the collaborator threw it
RawError(who) ==
  [type |-> "Raw", message |-> <<who, " failed">>, statusCode |-> Undefined]

Returned(value) == [status |-> "returned", value |-> Some(value), error |-> Undefined]

Thrown(error) == [status |-> "thrown", value |-> Undefined, error |-> Some(error)]

noSSOConnectionErrMessage == <<"No SSO connection found.">>

----------------------------------------------------------------------------
(* The connections the store may hold *)

MaxConns == 2

SAMLRecord(clientID, tenant, product, entityID, sso) ==
  [clientID |-> clientID, tenant |-> tenant, product |-> product,
   entityID |-> Some(entityID), sso |-> sso,
   forceAuthn |-> FALSE, identifierFormat |-> Undefined,
   oidcProvider |-> Undefined]

OIDCRecord(clientID, tenant, product) ==
  [clientID |-> clientID, tenant |-> tenant, product |-> product,
   entityID |-> Undefined, sso |-> NoKeys,
   forceAuthn |-> FALSE, identifierFormat |-> Undefined,
   oidcProvider |-> Some([discoveryUrl |-> "https://op.example/.well-known",
                          clientId |-> "op-client", clientSecret |-> "op-secret"])]

RedirectOnly == [redirectUrl |-> "https://idp.example/redirect"]
PostOnly == [postUrl |-> "https://idp.example/post"]
BothEndpoints == [redirectUrl |-> "https://idp.example/redirect",
                  postUrl |-> "https://idp.example/post"]

SAMLConnections ==
  { SAMLRecord("c1", "acme", "crm", "idp-1", RedirectOnly),
    SAMLRecord("c2", "acme", "crm", "idp-2", PostOnly),
    SAMLRecord("c3", "globex", "crm", "idp-1", BothEndpoints),
    SAMLRecord("c4", "globex", "crm", "idp-2", NoKeys) }

OIDCConnections == { OIDCRecord("c5", "acme", "crm") }

Connections == SAMLConnections \cup OIDCConnections

\* the stores: lists without repetition of at most MaxConns connections
RECURSIVE ListsUpTo(_)
ListsUpTo(n) ==
  IF n = 0 THEN { <<>> }
  ELSE LET shorter == ListsUpTo(n - 1)
       IN shorter \cup
          { Append(l, c) : l \in { s \in shorter : Len(s) = n - 1 },
                           c \in Connections }

Stores ==
  { l \in ListsUpTo(MaxConns) :
      \A i, j \in DOMAIN l : i # j => l[i].clientID # l[j].clientID }

----------------------------------------------------------------------------
(* The connection store (Storable.getByIndex) and its index keys *)

TenantProduct == "tenantProduct"
EntityID == "entityID"

\* dbutils.keyFromParts(tenant, product)
keyFromParts(tenant, product) == <<tenant, ":", product>>

IndexKeys(c, name) ==
  IF name = TenantProduct THEN { keyFromParts(c.tenant, c.product) }
  ELSE IF c.entityID = Undefined THEN {}
  ELSE { <<c.entityID[1]>> }

\* (await this.connection.getByIndex({ name, value })).data
getByIndex(store, name, value) ==
  SelectSeq(store, LAMBDA c : value \in IndexKeys(c, name))

----------------------------------------------------------------------------
(* The toolkit's forms and URLs *)

\* new URLSearchParams(record): the keys and their values
URLSearchParams(record) == record

\* `${url}?${params}`
WithQuery(url, params) == [url |-> url, query |-> params]

\* saml.createPostForm(action, fields)
createPostForm(action, fields) == [action |-> action, fields |-> fields]

\* originalParams.SAMLResponse
Prop(record, key) == IF key \in DOMAIN record THEN Some(record[key]) ELSE Undefined

----------------------------------------------------------------------------
(* resolveConnection *)

AuthFlows == { "oauth", "saml", "idp-initiated" }
Tenants == { "", "acme" }
Products == { "", "crm" }
EntityIds == { "", "idp-1", "idp-2" }
Hints == { "", "c1", "c9" }
FedAppIds == { "fed-1" }
OriginalParamsSet ==
  { NoKeys,
    [SAMLResponse |-> "abc123"],
    [tenant |-> "evil", state |-> "xyz"] }

Opt(S) == { Undefined } \cup { Some(v) : v \in S }

ResolveParams ==
  [authFlow : AuthFlows, originalParams : OriginalParamsSet,
   tenant : Opt(Tenants), product : Opt(Products), entityId : Opt(EntityIds),
   idp_hint : Opt(Hints), samlFedAppId : Opt(FedAppIds)]

\* which lookups a call makes
LooksUpTenantProduct(params) == Truthy(params.tenant) /\ Truthy(params.product)
LooksUpEntityId(params) == Truthy(params.entityId)

\* ConnectionsAfterLookups with the tenant/product result kept when both ran
ConnectionsTenantProductFirst(store, params) ==
  IF LooksUpTenantProduct(params)
  THEN Some(getByIndex(store, TenantProduct,
                       keyFromParts(params.tenant[1], params.product[1])))
  ELSE IF LooksUpEntityId(params)
  THEN Some(getByIndex(store, EntityID, <<params.entityId[1]>>))
  ELSE Undefined

\* lines 63-82: the connections variable after the lookups that ran
ConnectionsAfterLookups(store, params) ==
  LET byTenantProduct ==
        IF LooksUpTenantProduct(params)
        THEN Some(getByIndex(store, TenantProduct,
                             keyFromParts(params.tenant[1], params.product[1])))
        ELSE Undefined
  IN IF LooksUpEntityId(params)
     THEN Some(getByIndex(store, EntityID, <<params.entityId[1]>>))
     ELSE byTenantProduct

\* line 106 taken only when no entity id came with the tenant and product
SpInitiatedWithoutEntityId(params) ==
  /\ params.authFlow \in { "oauth", "saml" }
  /\ LooksUpTenantProduct(params)
  /\ ~LooksUpEntityId(params)

\* line 106: ['oauth', 'saml'].includes(authFlow) && tenant && product
SpInitiated(params) ==
  params.authFlow \in { "oauth", "saml" } /\ LooksUpTenantProduct(params)

\* line 119: authFlow === 'idp-initiated' && entityId
IdpInitiated(params) ==
  params.authFlow = "idp-initiated" /\ Truthy(params.entityId)

\* lines 101-137: no hint, at least one connection
Disambiguate(o, params, connections) ==
  LET samlFedAppId ==
        IF params.samlFedAppId = Undefined THEN "" ELSE params.samlFedAppId[1]
      url == <<o.externalUrl, o.idpDiscoveryPath>>
  IN IF Len(connections) > 1 /\ SpInitiated(params)
     THEN Returned([redirectUrl |->
            Some(WithQuery(url, URLSearchParams(
              Spread([tenant |-> params.tenant[1],
                      product |-> params.product[1],
                      authFlow |-> "sp-initiated",
                      samlFedAppId |-> samlFedAppId],
                     params.originalParams))))])
     ELSE IF Len(connections) > 1 /\ IdpInitiated(params)
     THEN Returned([postForm |->
            Some(createPostForm(
              WithQuery(<<o.idpDiscoveryPath>>,
                        URLSearchParams([entityId |-> params.entityId[1],
                                         authFlow |-> params.authFlow])),
              << [name |-> "SAMLResponse",
                  value |-> Prop(params.originalParams, "SAMLResponse")] >>))])
     ELSE Returned([connection |-> At(connections, 0)])

\* ByHint falling back to the first connection when none matches
ByHintOrFirst(connections, idp_hint) ==
  LET found == Find(connections, idp_hint)
  IN IF found = Undefined
     THEN Returned([connection |-> At(connections, 0)])
     ELSE Returned([connection |-> found])

\* lines 90-99: the idp_hint branch
ByHint(connections, idp_hint) ==
  LET found == Find(connections, idp_hint)
  IN IF found = Undefined
     THEN Thrown(JacksonError(noSSOConnectionErrMessage, "404"))
     ELSE Returned([connection |-> found])

\* Resolve testing only for a missing list, not for an empty one
ResolveNullCheckOnly(o, params, connections) ==
  IF connections = Undefined
  THEN Thrown(JacksonError(noSSOConnectionErrMessage, "404"))
  ELSE IF Truthy(params.idp_hint)
  THEN ByHint(connections[1], params.idp_hint[1])
  ELSE Disambiguate(o, params, connections[1])

\* lines 84-138: what the call does with the connections it looked up
Resolve(o, params, connections) ==
  IF connections = Undefined \/ Len(connections[1]) = 0
  THEN Thrown(JacksonError(noSSOConnectionErrMessage, "404"))
  ELSE IF Truthy(params.idp_hint)
  THEN ByHint(connections[1], params.idp_hint[1])
  ELSE Disambiguate(o, params, connections[1])

\* the reads of the connection store a call makes, in order
Reads(params) ==
  (IF LooksUpTenantProduct(params) THEN << TenantProduct >> ELSE << >>)
  \o (IF LooksUpEntityId(params) THEN << EntityID >> ELSE << >>)

\* resolveConnection(params) with every lookup answering
ResolveConnection ==
  /\ resolution = Undefined
  /\ \E params \in ResolveParams :
       LET connections == ConnectionsAfterLookups(connection, params)
       IN resolution' = Some([params |-> params,
                              reads |-> Reads(params),
                              failed |-> FALSE,
                              connections |-> connections,
                              outcome |-> Resolve(opts, params, connections)])
  /\ UNCHANGED <<calls, drawn, connection, session, opts, pc, args, local, ret>>

\* resolveConnection(params) when a getByIndex rejects: the rejection
\* leaves the function as it is
ResolveConnectionFails ==
  /\ resolution = Undefined
  /\ \E params \in ResolveParams :
       /\ Reads(params) # << >>
       /\ \E n \in 1..Len(Reads(params)) :
            resolution' = Some([params |-> params,
                                reads |-> SubSeq(Reads(params), 1, n),
                                failed |-> TRUE,
                                connections |-> Undefined,
                                outcome |-> Thrown(RawError("getByIndex"))])
  /\ UNCHANGED <<calls, drawn, connection, session, opts, pc, args, local, ret>>

\* the caller takes the outcome; the next request may come
ResolveDone ==
  /\ resolution # Undefined
  /\ resolution' = Undefined
  /\ UNCHANGED <<calls, drawn, connection, session, opts, pc, args, local, ret>>

----------------------------------------------------------------------------
(* The session store (Storable.put, Storable.get) and the relay state *)

relayStatePrefix == << "boxyhq_jackson_" >>

\* this.session.put(key, value), once it has resolved
StorePut(store, key, value) == (key :> value) @@ store

\* this.session.get(key)
StoreGet(store, key) == IF key \in DOMAIN store THEN Some(store[key]) ELSE Undefined

\* the key a callback reads: the relay state without its prefix
StripPrefix(relayState) ==
  IF Len(relayState) > Len(relayStatePrefix)
     /\ SubSeq(relayState, 1, Len(relayStatePrefix)) = relayStatePrefix
  THEN Some(relayState[Len(relayStatePrefix) + 1])
  ELSE Undefined

\* crypto.randomBytes(16).toString('hex')
SessionIds == { "5e1f", "a07c" }

\* lines 305-317: the session record; an optional field is set when truthy
SessionRecord(requestId, requested, oidcCodeVerifier, oidcNonce) ==
  [id |-> requestId, requested |-> requested, samlFederated |-> TRUE,
   oidcCodeVerifier |->
     IF Truthy(oidcCodeVerifier) THEN oidcCodeVerifier ELSE Undefined,
   oidcNonce |-> IF Truthy(oidcNonce) THEN oidcNonce ELSE Undefined]

\* line 319 with the record filed under its request id
SessionPutUnderRequestId(store, sessionId, record) ==
  (record.id :> record) @@ store

\* line 319 with the put not awaited: the store as the return finds it
SessionPutNotAwaited(store, sessionId, record) == store

\* line 319 with the put replacing the store's content
SessionPutClearingOthers(store, sessionId, record) == (sessionId :> record)

\* line 319: the store once the awaited put has resolved
SessionAfterPut(store, sessionId, record) == StorePut(store, sessionId, record)

\* line 321 with the token carrying content of the session filed under it
RelayStateWithContent(sessionId) ==
  relayStatePrefix \o << sessionId >>
    \o (IF sessionId \in DOMAIN session
        THEN << session[sessionId].requested.state >> ELSE << >>)

\* line 321
RelayState(sessionId) == relayStatePrefix \o << sessionId >>

----------------------------------------------------------------------------
(* Callers and configuration *)

Callers == { "a", "b" }

\* the calls a run makes to the builders
MaxCalls == 2

OidcPaths == { Undefined, Some("/api/oauth/oidc") }

Config(oidcPath) ==
  [externalUrl |-> "https://sso.example",
   idpDiscoveryPath |-> "/idp/select",
   samlPath |-> "/api/oauth/saml",
   samlAudience |-> "https://saml.boxyhq.com",
   oidcPath |-> oidcPath]

\* the caller's request context
RequestParamsSet ==
  { [state |-> "s1"], [client_id |-> "other", state |-> "s2"] }

\* the state after construction (lines 25-37), no call made yet
Init ==
  /\ connection \in Stores
  /\ session = NoKeys
  /\ opts \in { Config(p) : p \in OidcPaths }
  /\ resolution = Undefined
  /\ pc = [c \in Callers |-> "idle"]
  /\ args = [c \in Callers |-> Undefined]
  /\ local = [c \in Callers |-> Undefined]
  /\ ret = [c \in Callers |-> Undefined]
  /\ calls = 0
  /\ drawn = [id \in SessionIds |-> 0]

\* every connection of the catalogue provisioned
Provisioned ==
  << SAMLRecord("c1", "acme", "crm", "idp-1", RedirectOnly),
     SAMLRecord("c2", "acme", "crm", "idp-2", PostOnly),
     SAMLRecord("c3", "globex", "crm", "idp-1", BothEndpoints),
     SAMLRecord("c4", "globex", "crm", "idp-2", NoKeys),
     OIDCRecord("c5", "acme", "crm") >>

\* the state after construction over the provisioned store
InitProvisioned ==
  /\ connection = Provisioned
  /\ session = NoKeys
  /\ opts \in { Config(p) : p \in OidcPaths }
  /\ resolution = Undefined
  /\ pc = [c \in Callers |-> "idle"]
  /\ args = [c \in Callers |-> Undefined]
  /\ local = [c \in Callers |-> Undefined]
  /\ ret = [c \in Callers |-> Undefined]
  /\ calls = 0
  /\ drawn = [id \in SessionIds |-> 0]

Idle(c) == pc[c] = "idle"

Op(c) == args[c][1].op

\* a call ends: pc, result
Finish(c, outcome) ==
  /\ pc' = [pc EXCEPT ![c] = "done"]
  /\ ret' = [ret EXCEPT ![c] = Some(outcome)]

\* the caller takes the outcome; its next call may come
CallerDone(c) ==
  /\ pc[c] = "done"
  /\ pc' = [pc EXCEPT ![c] = "idle"]
  /\ args' = [args EXCEPT ![c] = Undefined]
  /\ local' = [local EXCEPT ![c] = Undefined]
  /\ ret' = [ret EXCEPT ![c] = Undefined]
  /\ UNCHANGED <<calls, drawn, connection, session, opts, resolution>>

----------------------------------------------------------------------------
(* createSession, lines 292-322 *)

\* lines 303-319: draw the identifier, build the record, start the put
StartSession(c, frame, requestId, requested, oidcCodeVerifier, oidcNonce) ==
  \E sessionId \in SessionIds :
    /\ local' = [local EXCEPT ![c] =
         Some(frame @@
              [sessionId |-> sessionId,
               record |-> SessionRecord(requestId, requested,
                                        oidcCodeVerifier, oidcNonce),
               put |-> "pending",
               relayState |-> Undefined])]
    /\ pc' = [pc EXCEPT ![c] = "put"]
    /\ drawn' = [drawn EXCEPT ![sessionId] = @ + 1]

RequestIdsGiven == { "req-1" }
VerifiersGiven == { "", "verifier-1" }
NoncesGiven == { "", "nonce-1" }

\* createSession called on its own
CreateSessionCall(c) ==
  /\ Idle(c)
  /\ calls < MaxCalls
  /\ calls' = calls + 1
  /\ \E requestId \in RequestIdsGiven, requested \in RequestParamsSet,
        oidcCodeVerifier \in Opt(VerifiersGiven), oidcNonce \in Opt(NoncesGiven) :
       /\ args' = [args EXCEPT ![c] =
            Some([op |-> "createSession", requestId |-> requestId,
                  requested |-> requested,
                  oidcCodeVerifier |-> oidcCodeVerifier,
                  oidcNonce |-> oidcNonce])]
       /\ StartSession(c, NoKeys, requestId, requested, oidcCodeVerifier, oidcNonce)
  /\ UNCHANGED <<connection, session, opts, resolution, ret>>

\* the put of a suspended call resolves: lines 319-321
PutResolves(c) ==
  /\ session' = SessionAfterPut(session, local[c][1].sessionId, local[c][1].record)
  /\ local' = [local EXCEPT ![c] =
       Some([local[c][1] EXCEPT !.put = "resolved",
                                !.relayState = Some(RelayState(local[c][1].sessionId))])]

\* the put of a suspended call rejects: line 319 throws
PutRejects(c) ==
  /\ session' = session
  /\ local' = [local EXCEPT ![c] = Some([local[c][1] EXCEPT !.put = "rejected"])]

CreateSessionPut(c) ==
  /\ pc[c] = "put" /\ Op(c) = "createSession"
  /\ \/ /\ PutResolves(c)
        /\ Finish(c, Returned(RelayState(local[c][1].sessionId)))
     \/ /\ PutRejects(c)
        /\ Finish(c, Thrown(RawError("session.put")))
  /\ UNCHANGED <<calls, drawn, connection, opts, resolution, args>>

----------------------------------------------------------------------------
(* createSAMLRequest, lines 140-208 *)

\* getDefaultCertificate()
Certificate == [privateKey |-> "private-key", publicKey |-> "public-key"]

\* samlRequest.id, drawn by the toolkit
RequestIds == { "_4d2a" }

Base64(bytes) == [encoding |-> "base64", of |-> bytes]

DeflateRaw(bytes) == [encoding |-> "deflateRaw", of |-> bytes]

\* lines 152-160: ssoUrl
SsoUrl(sso) ==
  IF "redirectUrl" \in DOMAIN sso THEN Some(sso.redirectUrl)
  ELSE IF "postUrl" \in DOMAIN sso THEN Some(sso.postUrl)
  ELSE Undefined

\* post, were the POST endpoint tested first
PostWhenExposed(sso) == "postUrl" \in DOMAIN sso

\* lines 153-160: post
Post(sso) == "redirectUrl" \notin DOMAIN sso /\ "postUrl" \in DOMAIN sso

\* lines 162-172: saml.request({...})
SamlRequest(o, conn, ssoUrl, certificate, id) ==
  [id |-> id,
   request |-> [ssoUrl |-> ssoUrl,
                entityID |-> << o.samlAudience >>,
                callbackUrl |-> << o.externalUrl, o.samlPath >>,
                signingKey |-> certificate.privateKey,
                publicKey |-> certificate.publicKey,
                forceAuthn |-> conn.forceAuthn,
                identifierFormat |->
                  IF Truthy(conn.identifierFormat) THEN conn.identifierFormat[1]
                  ELSE "urn:oasis:names:tc:SAML:1.1:nameid-format:emailAddress"]]

\* redirect.success(ssoUrl, params)
RedirectSuccess(ssoUrl, params) == [url |-> ssoUrl, query |-> params]

\* lines 186-190, 204-207: the HTTP-Redirect result
RedirectBinding(ssoUrl, relayState, samlRequest) ==
  [redirect_url |->
     Some(RedirectSuccess(ssoUrl,
            [RelayState |-> relayState,
             SAMLRequest |-> Base64(DeflateRaw(samlRequest.request))])),
   authorize_form |-> Undefined]

\* the HTTP-POST result with the redirect URL built as well
PostBindingAndRedirect(ssoUrl, relayState, samlRequest) ==
  [redirect_url |->
     Some(RedirectSuccess(ssoUrl,
            [RelayState |-> relayState,
             SAMLRequest |-> Base64(samlRequest.request)])),
   authorize_form |->
     Some(createPostForm(ssoUrl,
            << [name |-> "RelayState", value |-> relayState],
               [name |-> "SAMLRequest", value |-> Base64(samlRequest.request)] >>))]

\* lines 191-207: the HTTP-POST result
PostBinding(ssoUrl, relayState, samlRequest) ==
  [redirect_url |-> Undefined,
   authorize_form |->
     Some(createPostForm(ssoUrl,
            << [name |-> "RelayState", value |-> relayState],
               [name |-> "SAMLRequest", value |-> Base64(samlRequest.request)] >>))]

SAMLOf(store) == { c \in Elements(store) : c.oidcProvider = Undefined }

OIDCOf(store) == { c \in Elements(store) : c.oidcProvider # Undefined }

\* the call, up to line 148: await getDefaultCertificate()
SAMLRequestCall(c) ==
  /\ Idle(c)
  /\ calls < MaxCalls
  /\ calls' = calls + 1
  /\ \E conn \in SAMLOf(connection), requestParams \in RequestParamsSet :
       args' = [args EXCEPT ![c] =
         Some([op |-> "createSAMLRequest", connection |-> conn,
               requestParams |-> requestParams])]
  /\ pc' = [pc EXCEPT ![c] = "certificate"]
  /\ UNCHANGED <<drawn, connection, session, opts, resolution, local, ret>>

\* lines 148-180, into createSession up to its put
SAMLRequestCertificate(c) ==
  /\ pc[c] = "certificate" /\ Op(c) = "createSAMLRequest"
  /\ \/ /\ Finish(c, Thrown(RawError("getDefaultCertificate")))
        /\ UNCHANGED <<local, drawn>>
     \/ /\ Finish(c, Thrown(RawError("saml.request")))
        /\ UNCHANGED <<local, drawn>>
     \/ /\ \E id \in RequestIds :
             LET conn == args[c][1].connection
                 ssoUrl == SsoUrl(conn.sso)
                 samlRequest == SamlRequest(opts, conn, ssoUrl, Certificate, id)
             IN StartSession(c,
                  [ssoUrl |-> ssoUrl, post |-> Post(conn.sso),
                   samlRequest |-> samlRequest],
                  samlRequest.id,
                  Spread(args[c][1].requestParams, [client_id |-> conn.clientID]),
                  Undefined, Undefined)
        /\ UNCHANGED ret
  /\ UNCHANGED <<calls, connection, session, opts, resolution, args>>

\* lines 174-207 from the put on; the redirect binding awaits the deflate
SAMLRequestPut(c) ==
  /\ pc[c] = "put" /\ Op(c) = "createSAMLRequest"
  /\ \/ /\ PutRejects(c)
        /\ Finish(c, Thrown(RawError("session.put")))
     \/ /\ PutResolves(c)
        /\ local[c][1].post
        /\ Finish(c, Returned(PostBinding(local[c][1].ssoUrl,
                                          RelayState(local[c][1].sessionId),
                                          local[c][1].samlRequest)))
     \/ /\ PutResolves(c)
        /\ ~local[c][1].post
        /\ pc' = [pc EXCEPT ![c] = "deflate"]
        /\ UNCHANGED ret
  /\ UNCHANGED <<calls, drawn, connection, opts, resolution, args>>

\* lines 187-190, 204-207: redirect.success, which may not take an
\* undefined ssoUrl
SAMLRequestDeflate(c) ==
  /\ pc[c] = "deflate"
  /\ \/ Finish(c, Returned(RedirectBinding(local[c][1].ssoUrl,
                                           local[c][1].relayState[1],
                                           local[c][1].samlRequest)))
     \/ /\ local[c][1].ssoUrl = Undefined
        /\ Finish(c, Thrown(RawError("redirect.success")))
  /\ UNCHANGED <<calls, drawn, connection, session, opts, resolution, args, local>>

----------------------------------------------------------------------------
(* createOIDCRequest, lines 210-258 *)

\* generators.codeVerifier(), generators.nonce()
CodeVerifiers == { "verifier-1", "verifier-2" }
Nonces == { "nonce-1" }

\* generators.codeChallenge(verifier)
CodeChallenge(verifier) == [method |-> "S256", of |-> verifier]

\* the catch of lines 254-257 rethrowing what it caught
OIDCRequestErrorRethrown(err) == err

\* line 256
OIDCRequestError(err) ==
  JacksonError(<< "Unable to complete OIDC request. - " >> \o err.message, "400")

\* lines 225-230
OidcClient(o, conn) ==
  [client_id |-> conn.oidcProvider[1].clientId,
   client_secret |-> conn.oidcProvider[1].clientSecret,
   redirect_uris |-> << << o.externalUrl, o.oidcPath[1] >> >>,
   response_types |-> << "code" >>]

\* lines 243-249 with a nonce drawn anew for the URL
AuthorizationUrlOwnNonce(oidcClient, code_challenge, relayState, oidcNonce) ==
  [client |-> oidcClient,
   query |-> [scope |-> "openid email profile",
              code_challenge |-> code_challenge,
              code_challenge_method |-> "S256",
              state |-> relayState,
              nonce |-> "nonce-2"]]

\* lines 243-249: oidcClient.authorizationUrl({...})
AuthorizationUrl(oidcClient, code_challenge, relayState, oidcNonce) ==
  [client |-> oidcClient,
   query |-> [scope |-> "openid email profile",
              code_challenge |-> code_challenge,
              code_challenge_method |-> "S256",
              state |-> relayState,
              nonce |-> oidcNonce]]

\* line 218
oidcPathNotSetError ==
  JacksonError(<< "OpenID response handler path (oidcPath) is not set" >>, "400")

\* the oidcPath test left out
OidcPathTakenAsSet(o) == FALSE

\* line 217: if (!this.opts.oidcPath)
OidcPathNotSet(o) == ~Truthy(o.oidcPath)

\* the call, lines 217-224: the oidcPath test, then await oidcIssuerInstance
OIDCRequestCall(c) ==
  /\ Idle(c)
  /\ calls < MaxCalls
  /\ calls' = calls + 1
  /\ \E conn \in OIDCOf(connection), requestParams \in RequestParamsSet :
       args' = [args EXCEPT ![c] =
         Some([op |-> "createOIDCRequest", connection |-> conn,
               requestParams |-> requestParams])]
  /\ IF OidcPathNotSet(opts)
     THEN Finish(c, Thrown(oidcPathNotSetError))
     ELSE /\ pc' = [pc EXCEPT ![c] = "discovery"]
          /\ UNCHANGED ret
  /\ UNCHANGED <<drawn, connection, session, opts, resolution, local>>

\* lines 224-241, into createSession up to its put
OIDCRequestDiscovery(c) ==
  /\ pc[c] = "discovery"
  /\ \/ /\ Finish(c, Thrown(OIDCRequestError(RawError("oidcIssuerInstance"))))
        /\ UNCHANGED <<local, drawn>>
     \/ /\ Finish(c, Thrown(OIDCRequestError(RawError("oidcIssuer.Client"))))
        /\ UNCHANGED <<local, drawn>>
     \/ /\ \E oidcCodeVerifier \in CodeVerifiers, oidcNonce \in Nonces :
             StartSession(c,
               [oidcClient |-> OidcClient(opts, args[c][1].connection),
                code_challenge |-> CodeChallenge(oidcCodeVerifier),
                oidcCodeVerifier |-> oidcCodeVerifier,
                oidcNonce |-> oidcNonce],
               args[c][1].connection.clientID,
               args[c][1].requestParams,
               Some(oidcCodeVerifier), Some(oidcNonce))
        /\ UNCHANGED ret
  /\ UNCHANGED <<calls, connection, session, opts, resolution, args>>

\* lines 236-257 from the put on
OIDCRequestPut(c) ==
  /\ pc[c] = "put" /\ Op(c) = "createOIDCRequest"
  /\ \/ /\ PutRejects(c)
        /\ Finish(c, Thrown(OIDCRequestError(RawError("session.put"))))
     \/ /\ PutResolves(c)
        /\ Finish(c, Thrown(OIDCRequestError(RawError("authorizationUrl"))))
     \/ /\ PutResolves(c)
        /\ Finish(c, Returned(
             [redirect_url |->
                Some(AuthorizationUrl(local[c][1].oidcClient,
                                      local[c][1].code_challenge,
                                      RelayState(local[c][1].sessionId),
                                      local[c][1].oidcNonce))]))
  /\ UNCHANGED <<calls, drawn, connection, opts, resolution, args>>

----------------------------------------------------------------------------
(* createSAMLResponse, lines 260-289 *)

Profiles == { [claims |-> [email |-> "jo@example.com"]] }

\* the sessions a federated flow recovers
FederatedSessions ==
  { [id |-> "_4d2a", samlFederated |-> TRUE,
     requested |-> [entityId |-> "https://sp.example/entity",
                    acsUrl |-> "https://sp.example/acs",
                    id |-> "sp-request-1",
                    relayState |-> "sp-relay-1"]] }

\* lines 264-271: createSAMLResponse({...}), signed
SignedResponse(o, profile, sess, certificate) ==
  [audience |-> sess.requested.entityId,
   acsUrl |-> sess.requested.acsUrl,
   requestId |-> sess.requested.id,
   issuer |-> << o.samlAudience >>,
   profile |-> profile,
   privateKey |-> certificate.privateKey,
   publicKey |-> certificate.publicKey]

\* lines 273-284
ResponseForm(sess, responseSigned) ==
  [responseForm |->
     Some(createPostForm(Some(sess.requested.acsUrl),
            << [name |-> "RelayState", value |-> << sess.requested.relayState >>],
               [name |-> "SAMLResponse", value |-> Base64(responseSigned)] >>))]

\* the call, up to line 261: await getDefaultCertificate()
SAMLResponseCall(c) ==
  /\ Idle(c)
  /\ calls < MaxCalls
  /\ calls' = calls + 1
  /\ \E profile \in Profiles, sess \in FederatedSessions :
       args' = [args EXCEPT ![c] =
         Some([op |-> "createSAMLResponse", profile |-> profile, session |-> sess])]
  /\ pc' = [pc EXCEPT ![c] = "certificate"]
  /\ UNCHANGED <<drawn, connection, session, opts, resolution, local, ret>>

\* line 261: the certificate arrives, or its rejection leaves the function
SAMLResponseCertificate(c) ==
  /\ pc[c] = "certificate" /\ Op(c) = "createSAMLResponse"
  /\ \/ Finish(c, Thrown(RawError("getDefaultCertificate")))
     \/ /\ pc' = [pc EXCEPT ![c] = "sign"]
        /\ UNCHANGED ret
  /\ UNCHANGED <<calls, drawn, connection, session, opts, resolution, args, local>>

\* lines 263-288 with the session filed again under its id
SAMLResponseSignFilingSession(c) ==
  /\ pc[c] = "sign"
  /\ Finish(c, Returned(ResponseForm(args[c][1].session,
       SignedResponse(opts, args[c][1].profile, args[c][1].session, Certificate))))
  /\ session' = StorePut(session, args[c][1].session.id, args[c][1].session)
  /\ UNCHANGED <<calls, drawn, connection, opts, resolution, args, local>>

\* lines 263-288: await createSAMLResponse, the form, or the catch
SAMLResponseSign(c) ==
  /\ pc[c] = "sign"
  /\ \/ Finish(c, Thrown(JacksonError(<< "Unable to validate SAML Response." >>, "403")))
     \/ Finish(c, Returned(ResponseForm(args[c][1].session,
          SignedResponse(opts, args[c][1].profile, args[c][1].session, Certificate))))
  /\ UNCHANGED <<calls, drawn, connection, session, opts, resolution, args, local>>

----------------------------------------------------------------------------
(* Specifications *)

ResolveNext == ResolveConnection \/ ResolveConnectionFails \/ ResolveDone

\* resolveConnection over every store
SpecResolve == Init /\ [][ResolveNext]_vars

SessionNext ==
  \E c \in Callers : CreateSessionCall(c) \/ CreateSessionPut(c) \/ CallerDone(c)

\* concurrent createSession calls
SpecSession == InitProvisioned /\ [][SessionNext]_vars

BuildNext ==
  \E c \in Callers :
    \/ SAMLRequestCall(c) \/ SAMLRequestCertificate(c)
    \/ SAMLRequestPut(c) \/ SAMLRequestDeflate(c)
    \/ OIDCRequestCall(c) \/ OIDCRequestDiscovery(c) \/ OIDCRequestPut(c)
    \/ SAMLResponseCall(c) \/ SAMLResponseCertificate(c) \/ SAMLResponseSign(c)
    \/ CallerDone(c)

\* concurrent builder calls over the provisioned store
SpecBuild == InitProvisioned /\ [][BuildNext]_vars

FrameNext ==
  \/ (\A c \in Callers : Idle(c)) /\ ResolveNext
  \/ resolution = Undefined /\ BuildNext

\* builder calls, with resolveConnection calls between them
SpecFrame == InitProvisioned /\ [][FrameNext]_vars

----------------------------------------------------------------------------
(* Properties of resolveConnection *)

NotFound == Thrown(JacksonError(noSSOConnectionErrMessage, "404"))

\* a resolveConnection call whose lookups all answered
Resolved == resolution # Undefined /\ ~resolution[1].failed

\* the connections of the store filed under an entity id, in store order
FiledUnderEntity(entityId) ==
  SelectSeq(connection, LAMBDA c : c.entityID = Some(entityId))

\* the connections of the store filed under a tenant and product
FiledUnderTenantProduct(tenant, product) ==
  SelectSeq(connection, LAMBDA c : c.tenant = tenant /\ c.product = product)

\* the fields of a result that hold a value
Populated(value, fields) ==
  { f \in fields : f \in DOMAIN value /\ value[f] # Undefined }

ResolutionFields == { "connection", "redirectUrl", "postForm" }

\* C1: a resolveConnection call whose connection set is empty after the
\* lookups, or that made no lookup at all, throws JacksonError 404
\* 'No SSO connection found.' and returns nothing.
C1_EmptySetIsNotFound ==
  Resolved =>
    LET r == resolution[1]
    IN (r.connections = Undefined \/ r.connections = Some(<< >>))
         => /\ r.outcome = NotFound
            /\ r.outcome.value = Undefined
            /\ (r.reads = << >> <=> r.connections = Undefined)

\* both lookups ran, the last one found nothing, the call threw NotFound
C1_Witness ==
  /\ Resolved
  /\ resolution[1].reads = << TenantProduct, EntityID >>
  /\ resolution[1].connections = Some(<< >>)
  /\ resolution[1].outcome = NotFound

\* C2: with tenant+product and an entity id both given, the call works on
\* the connections filed under the entity id: none means NotFound, a hint
\* is matched among them only, and a returned connection is one of them.
C2_EntityIdSupersedes ==
  Resolved =>
    LET r == resolution[1]
        p == r.params
    IN (LooksUpTenantProduct(p) /\ LooksUpEntityId(p)) =>
         LET byEntity == FiledUnderEntity(p.entityId[1])
         IN /\ r.connections = Some(byEntity)
            /\ byEntity = << >> => r.outcome = NotFound
            /\ (Truthy(p.idp_hint)
                /\ \A c \in Elements(byEntity) : c.clientID # p.idp_hint[1])
                 => r.outcome = NotFound
            /\ (r.outcome.status = "returned"
                /\ "connection" \in DOMAIN r.outcome.value[1])
                 => r.outcome.value[1].connection[1] \in Elements(byEntity)
            /\ (r.outcome.status = "returned" /\ Len(byEntity) = 1)
                 => r.outcome.value[1] = [connection |-> Some(byEntity[1])]
            /\ (r.outcome.status = "returned"
                /\ DOMAIN r.outcome.value[1] # { "connection" })
                 => Len(byEntity) > 1

\* tenant+product has connections, the entity id has none: NotFound
C2_Witness ==
  /\ Resolved
  /\ LooksUpTenantProduct(resolution[1].params)
  /\ LooksUpEntityId(resolution[1].params)
  /\ FiledUnderTenantProduct(resolution[1].params.tenant[1],
                             resolution[1].params.product[1]) # << >>
  /\ FiledUnderEntity(resolution[1].params.entityId[1]) = << >>
  /\ resolution[1].outcome = NotFound

\* C3: with an idp_hint and a non-empty connection set, the call returns
\* {connection} alone, holding a connection of the set whose clientID is the
\* hint, for every flow and set size; with no such connection it throws
\* NotFound 404.
C3_HintMatchesExactlyOrNotFound ==
  Resolved =>
    LET r == resolution[1]
        p == r.params
    IN (Truthy(p.idp_hint) /\ r.connections # Undefined
        /\ r.connections # Some(<< >>)) =>
         LET matching == { c \in Elements(r.connections[1]) :
                             c.clientID = p.idp_hint[1] }
         IN IF matching = {}
            THEN r.outcome = NotFound
            ELSE /\ r.outcome.status = "returned"
                 /\ DOMAIN r.outcome.value[1] = { "connection" }
                 /\ r.outcome.value[1].connection # Undefined
                 /\ r.outcome.value[1].connection[1] \in matching

\* a hint that matches none of two connections: NotFound
C3_Witness ==
  /\ Resolved
  /\ Truthy(resolution[1].params.idp_hint)
  /\ resolution[1].connections # Undefined
  /\ Len(resolution[1].connections[1]) = 2
  /\ \A c \in Elements(resolution[1].connections[1]) :
       c.clientID # resolution[1].params.idp_hint[1]
  /\ resolution[1].outcome = NotFound

\* C4: a resolveConnection call that returns has exactly one of connection,
\* redirectUrl and postForm holding a value.
C4_ExactlyOneVariant ==
  (Resolved /\ resolution[1].outcome.status = "returned") =>
    Cardinality(Populated(resolution[1].outcome.value[1], ResolutionFields)) = 1

\* a call that returned a postForm and nothing else
C4_Witness ==
  /\ Resolved
  /\ resolution[1].outcome.status = "returned"
  /\ Populated(resolution[1].outcome.value[1], ResolutionFields) = { "postForm" }

DiscoveryKeys == { "tenant", "product", "authFlow", "samlFedAppId" }

\* C16: a returned redirectUrl has in its query tenant and product as
\* requested, authFlow 'sp-initiated' and samlFedAppId as requested (empty
\* when absent), whatever keys the original parameters use, and every
\* original parameter is in the query, with its own value unless its key is
\* one of those four.
C16_DiscoveryKeysAsRequested ==
  (Resolved /\ resolution[1].outcome.status = "returned"
   /\ "redirectUrl" \in DOMAIN resolution[1].outcome.value[1]) =>
    LET p == resolution[1].params
        query == resolution[1].outcome.value[1].redirectUrl[1].query
    IN /\ query.tenant = p.tenant[1]
       /\ query.product = p.product[1]
       /\ query.authFlow = "sp-initiated"
       /\ query.samlFedAppId =
            (IF p.samlFedAppId = Undefined THEN "" ELSE p.samlFedAppId[1])
       /\ \A k \in DOMAIN p.originalParams :
            /\ k \in DOMAIN query
            /\ k \notin DiscoveryKeys => query[k] = p.originalParams[k]

----------------------------------------------------------------------------
(* Properties of the builders and of createSession *)

\* caller c is in a call of op, or has its outcome in hand
In(c, op) == args[c] # Undefined /\ args[c][1].op = op

\* caller c has the value its call of op returned
Got(c, op) ==
  In(c, op) /\ pc[c] = "done" /\ ret[c][1].status = "returned"

\* caller c's call has gone as far as drawing its session identifier
Drew(c) == local[c] # Undefined

RequestFields == { "redirect_url", "authorize_form" }

\* C5 as claimed: a createSAMLRequest call that returns gives the POST form,
\* addressed to postUrl, exactly when the metadata has a postUrl, and the
\* redirect URL otherwise.
C5_PostIffPostUrlExposed ==
  \A c \in Callers :
    Got(c, "createSAMLRequest") =>
      LET sso == args[c][1].connection.sso
          v == ret[c][1].value[1]
      IN IF "postUrl" \in DOMAIN sso
         THEN /\ v.authorize_form # Undefined
              /\ v.authorize_form[1].action = Some(sso.postUrl)
         ELSE v.redirect_url # Undefined

\* C5, amended: a createSAMLRequest call that returns gives the POST form,
\* addressed to postUrl, exactly when the metadata has a postUrl and no
\* redirectUrl; otherwise it gives the redirect URL, which is built on
\* redirectUrl whenever the metadata has one (also beside a postUrl).
C5_PostIffOnlyPostUrl ==
  \A c \in Callers :
    Got(c, "createSAMLRequest") =>
      LET sso == args[c][1].connection.sso
          v == ret[c][1].value[1]
      IN IF "postUrl" \in DOMAIN sso /\ "redirectUrl" \notin DOMAIN sso
         THEN /\ v.authorize_form # Undefined
              /\ v.authorize_form[1].action = Some(sso.postUrl)
              /\ v.authorize_form[1].fields[2].value.encoding = "base64"
              /\ v.authorize_form[1].fields[2].value.of.ssoUrl = Some(sso.postUrl)
         ELSE /\ v.authorize_form = Undefined
              /\ v.redirect_url # Undefined
              /\ "redirectUrl" \in DOMAIN sso =>
                   /\ v.redirect_url[1].url = Some(sso.redirectUrl)
                   /\ v.redirect_url[1].query.SAMLRequest.of.encoding = "deflateRaw"
                   /\ v.redirect_url[1].query.SAMLRequest.of.of.ssoUrl
                        = Some(sso.redirectUrl)

\* metadata with both endpoints: the call returned the redirect URL
C5_Witness ==
  \E c \in Callers :
    /\ Got(c, "createSAMLRequest")
    /\ DOMAIN args[c][1].connection.sso = { "redirectUrl", "postUrl" }
    /\ ret[c][1].value[1].authorize_form = Undefined
    /\ ret[c][1].value[1].redirect_url[1].url
         = Some(args[c][1].connection.sso.redirectUrl)

\* C6: after a createSession call on its own, the key left of the returned
\* token once the prefix is stripped reads back a session with the given
\* requestId, the given context, and each OIDC field equal to what was
\* supplied (the empty string too), absent exactly when not supplied.
C6_RoundTrip ==
  \A c \in Callers :
    (Got(c, "createSession") /\ calls = 1) =>
      LET key == StripPrefix(ret[c][1].value[1])
          read == IF key = Undefined THEN Undefined ELSE StoreGet(session, key[1])
      IN /\ read # Undefined
         /\ read[1].id = args[c][1].requestId
         /\ read[1].requested = args[c][1].requested
         /\ read[1].oidcCodeVerifier = args[c][1].oidcCodeVerifier
         /\ read[1].oidcNonce = args[c][1].oidcNonce

\* C7 as claimed: two createSession calls in flight together never hold the
\* same identifier, and once both returned their tokens differ and each
\* reads back the session of its own call.
C7_ConcurrentSessionsNeverCollide ==
  \A a, b \in Callers :
    (a # b /\ In(a, "createSession") /\ In(b, "createSession")
     /\ Drew(a) /\ Drew(b)) =>
      /\ local[a][1].sessionId # local[b][1].sessionId
      /\ (Got(a, "createSession") /\ Got(b, "createSession")) =>
           /\ ret[a][1].value[1] # ret[b][1].value[1]
           /\ StoreGet(session, StripPrefix(ret[a][1].value[1])[1])
                = Some(local[a][1].record)

\* C7, amended: a createSession call whose identifier no other call has
\* drawn returns a token that reads back the session written by that call;
\* two calls return different tokens exactly when they drew different
\* identifiers (nothing but the random draw keeps identifiers apart).
C7_DistinctDrawsResolveIndependently ==
  \A a \in Callers :
    Got(a, "createSession") =>
      LET key == StripPrefix(ret[a][1].value[1])
      IN /\ key = Some(local[a][1].sessionId)
         /\ drawn[local[a][1].sessionId] = 1 =>
              /\ StoreGet(session, key[1]) = Some(local[a][1].record)
              /\ local[a][1].record.id = args[a][1].requestId
              /\ local[a][1].record.requested = args[a][1].requested
         /\ \A b \in Callers \ { a } :
              Got(b, "createSession") =>
                (ret[a][1].value[1] = ret[b][1].value[1]
                   <=> local[a][1].sessionId = local[b][1].sessionId)

\* two calls with different arguments and different identifiers, both
\* returned, each token reading back its own session
C7_Witness ==
  \E a, b \in Callers :
    /\ a # b
    /\ Got(a, "createSession") /\ Got(b, "createSession")
    /\ args[a][1].requested # args[b][1].requested
    /\ ret[a][1].value[1] # ret[b][1].value[1]
    /\ StoreGet(session, local[a][1].sessionId) = Some(local[a][1].record)
    /\ StoreGet(session, local[b][1].sessionId) = Some(local[b][1].record)
    /\ local[a][1].record # local[b][1].record

\* the relay state a builder's result carries
RelayStateIn(op, v) ==
  IF op = "createOIDCRequest" THEN v.redirect_url[1].query.state
  ELSE IF v.redirect_url # Undefined THEN v.redirect_url[1].query.RelayState
  ELSE v.authorize_form[1].fields[1].value

Builders == { "createSAMLRequest", "createOIDCRequest" }

\* C8: in createSAMLRequest and createOIDCRequest the relay state exists
\* only once the put has resolved; a returned value carries a relay state
\* whose key is in the session store (holding the call's own session when
\* no other call drew the identifier); a call whose put rejected returns
\* nothing, and a call whose put is pending has returned nothing yet.
C8_PutBeforeRelayState ==
  \A c \in Callers :
    \A op \in Builders :
      /\ (In(c, op) /\ Drew(c) /\ local[c][1].relayState # Undefined) =>
           /\ local[c][1].put = "resolved"
           /\ local[c][1].sessionId \in DOMAIN session
      /\ Got(c, op) =>
           LET key == StripPrefix(RelayStateIn(op, ret[c][1].value[1]))
           IN /\ local[c][1].put = "resolved"
              /\ key = Some(local[c][1].sessionId)
              /\ StoreGet(session, key[1]) # Undefined
              /\ drawn[key[1]] = 1 =>
                   StoreGet(session, key[1]) = Some(local[c][1].record)
      /\ (In(c, op) /\ Drew(c) /\ local[c][1].put = "rejected") =>
           pc[c] = "done" /\ ret[c][1].status = "thrown"
      /\ (In(c, op) /\ Drew(c) /\ local[c][1].put = "pending") =>
           ret[c] = Undefined

\* one builder has returned its relay state, found in the store, while the
\* put of the other is still pending
C8_Witness ==
  \E a, b \in Callers :
    /\ Got(a, "createOIDCRequest")
    /\ StoreGet(session,
         StripPrefix(RelayStateIn("createOIDCRequest", ret[a][1].value[1]))[1])
         = Some(local[a][1].record)
    /\ In(b, "createSAMLRequest") /\ Drew(b) /\ local[b][1].put = "pending"

\* C9: a createSAMLRequest call that returns has exactly one of redirect_url
\* and authorize_form holding a value: authorize_form for metadata with a
\* POST endpoint only, redirect_url for metadata with a redirect endpoint
\* only.
C9_ExactlyOneOfUrlAndForm ==
  \A c \in Callers :
    Got(c, "createSAMLRequest") =>
      LET sso == args[c][1].connection.sso
          held == Populated(ret[c][1].value[1], RequestFields)
      IN /\ Cardinality(held) = 1
         /\ DOMAIN sso = { "postUrl" } => held = { "authorize_form" }
         /\ DOMAIN sso = { "redirectUrl" } => held = { "redirect_url" }

\* metadata with a POST endpoint only: the form, and no redirect URL
C9_Witness ==
  \E c \in Callers :
    /\ Got(c, "createSAMLRequest")
    /\ DOMAIN args[c][1].connection.sso = { "postUrl" }
    /\ ret[c][1].value[1].authorize_form # Undefined
    /\ ret[c][1].value[1].redirect_url = Undefined

\* C10: for metadata with neither endpoint createSAMLRequest fails: it
\* builds no AuthnRequest, draws and writes no session, and returns nothing.
C10_NoEndpointIsConstructionError ==
  \A c \in Callers :
    (In(c, "createSAMLRequest") /\ DOMAIN args[c][1].connection.sso = {}) =>
      /\ ~Drew(c)
      /\ pc[c] = "done" => ret[c][1].status = "thrown"

\* C11: with oidcPath not configured, a createOIDCRequest call ends, for
\* every connection and context, in the one step that makes it, with
\* JacksonError 400 'OpenID response handler path (oidcPath) is not set':
\* it reaches no discovery, draws no session identifier and leaves the
\* session store as it was.
C11_NoOidcPathIsConfigError ==
  [][\A c \in Callers :
       (~In(c, "createOIDCRequest") /\ In(c, "createOIDCRequest")'
        /\ ~Truthy(opts.oidcPath)) =>
         /\ pc'[c] = "done"
         /\ ret'[c] = Some(Thrown(oidcPathNotSetError))
         /\ ret'[c][1].error[1].statusCode = Some("400")
         /\ local'[c] = Undefined
         /\ session' = session
         /\ drawn' = drawn]_vars

\* a createOIDCRequest call for c5 ended in the configuration error while
\* the store holds a session another builder wrote
C11_Witness ==
  \E c \in Callers :
    /\ In(c, "createOIDCRequest")
    /\ ~Truthy(opts.oidcPath)
    /\ pc[c] = "done"
    /\ ret[c] = Some(Thrown(oidcPathNotSetError))
    /\ session # NoKeys

AllBuilders == { "createSAMLRequest", "createOIDCRequest", "createSAMLResponse" }

\* C12: a builder call (createSAMLRequest, createOIDCRequest,
\* createSAMLResponse) that ends by exception throws a JacksonError with a
\* status code and a message, never the exception of a collaborator as the
\* collaborator threw it.
C12_NoRawErrorEscapes ==
  \A c \in Callers :
    \A op \in AllBuilders :
      (In(c, op) /\ pc[c] = "done" /\ ret[c][1].status = "thrown") =>
        LET err == ret[c][1].error[1]
        IN /\ err.type = "JacksonError"
           /\ err.statusCode # Undefined
           /\ err.message # << >>

\* the failures of discovery and of client construction, as thrown upstream
UpstreamFailures == { RawError("oidcIssuerInstance"), RawError("oidcIssuer.Client") }

\* C13: with oidcPath configured, a createOIDCRequest call that ends before
\* it drew a session identifier ended on a failure of discovery or of client
\* construction: the caller gets one JacksonError 400 whose message is
\* 'Unable to complete OIDC request. - ' followed by the upstream message,
\* never the upstream exception itself, and no redirect_url.
C13_DiscoveryFailureIsWrapped ==
  \A c \in Callers :
    (In(c, "createOIDCRequest") /\ Truthy(opts.oidcPath)
     /\ pc[c] = "done" /\ ~Drew(c)) =>
      /\ ret[c][1].status = "thrown"
      /\ ret[c][1].value = Undefined
      /\ ret[c][1].error[1] \notin UpstreamFailures
      /\ \E up \in UpstreamFailures :
           ret[c][1].error[1] =
             [type |-> "JacksonError",
              message |-> << "Unable to complete OIDC request. - " >> \o up.message,
              statusCode |-> Some("400")]

\* client construction failed: the 400 carrying its message
C13_Witness ==
  \E c \in Callers :
    /\ In(c, "createOIDCRequest") /\ Truthy(opts.oidcPath)
    /\ pc[c] = "done" /\ ~Drew(c)
    /\ ret[c][1].error[1].statusCode = Some("400")
    /\ ret[c][1].error[1].message =
         << "Unable to complete OIDC request. - ", "oidcIssuer.Client", " failed" >>

\* C14: the token a createSession call returns is the prefix followed by
\* the identifier it drew and nothing else: two calls that drew the same
\* identifier return the same token whatever requestId, context, verifier
\* and nonce each was given.
C14_TokenIsPrefixAndIdentifier ==
  \A a, b \in Callers :
    (Got(a, "createSession") /\ Got(b, "createSession")) =>
      /\ ret[a][1].value[1] = relayStatePrefix \o << local[a][1].sessionId >>
      /\ ret[a][1].value[1] \in { relayStatePrefix \o << id >> : id \in SessionIds }
      /\ local[a][1].sessionId = local[b][1].sessionId
           => ret[a][1].value[1] = ret[b][1].value[1]

\* two calls given different contexts, verifiers and nonces drew the same
\* identifier and returned the same token
C14_Witness ==
  \E a, b \in Callers :
    /\ a # b
    /\ Got(a, "createSession") /\ Got(b, "createSession")
    /\ local[a][1].sessionId = local[b][1].sessionId
    /\ args[a][1].requested # args[b][1].requested
    /\ args[a][1].oidcCodeVerifier # args[b][1].oidcCodeVerifier
    /\ args[a][1].oidcNonce # args[b][1].oidcNonce
    /\ local[a][1].record # local[b][1].record
    /\ ret[a][1].value[1] = ret[b][1].value[1]

\* C17: a createSAMLRequest call that returned wrote one session, under the
\* identifier inside the RelayState it gives out: its id is the id of the
\* AuthnRequest built, its requested context is the caller's with client_id
\* set to the connection's clientID (also over a client_id of the caller),
\* every other entry as the caller gave it, and no OIDC field.
C17_SAMLSessionContent ==
  \A c \in Callers :
    Got(c, "createSAMLRequest") =>
      LET given == args[c][1].requestParams
          conn == args[c][1].connection
          key == StripPrefix(RelayStateIn("createSAMLRequest", ret[c][1].value[1]))
          written == local[c][1].record
      IN /\ key = Some(local[c][1].sessionId)
         /\ written.id = local[c][1].samlRequest.id
         /\ written.id \in RequestIds
         /\ DOMAIN written.requested = DOMAIN given \cup { "client_id" }
         /\ written.requested.client_id = conn.clientID
         /\ \A k \in DOMAIN given \ { "client_id" } :
              written.requested[k] = given[k]
         /\ written.samlFederated
         /\ written.oidcCodeVerifier = Undefined
         /\ written.oidcNonce = Undefined
         /\ drawn[key[1]] = 1 => StoreGet(session, key[1]) = Some(written)
         /\ calls = 1 => DOMAIN session = { key[1] }

\* the caller's context had a client_id of its own: the session read back
\* under the relay state holds the connection's clientID and the caller's
\* state
C17_Witness ==
  \E c \in Callers :
    /\ Got(c, "createSAMLRequest")
    /\ "client_id" \in DOMAIN args[c][1].requestParams
    /\ args[c][1].requestParams.client_id # args[c][1].connection.clientID
    /\ LET read == StoreGet(session,
                     StripPrefix(RelayStateIn("createSAMLRequest",
                                              ret[c][1].value[1]))[1])
       IN /\ read # Undefined
          /\ read[1].requested.client_id = args[c][1].connection.clientID
          /\ read[1].requested.state = args[c][1].requestParams.state
          /\ read[1].id = local[c][1].samlRequest.id

\* C18: when a createOIDCRequest call returns, the state of the
\* authorization URL it gives is the relay state of a session in the store,
\* and that session has the connection's clientID as id, the caller's
\* context as requested, the URL's nonce as oidcNonce and, as
\* oidcCodeVerifier, the verifier the URL's S256 code challenge was derived
\* from.
C18_OIDCUrlMatchesSession ==
  [][\A c \in Callers :
       (In(c, "createOIDCRequest") /\ pc[c] # "done"
        /\ pc'[c] = "done" /\ ret'[c][1].status = "returned") =>
         LET url == ret'[c][1].value[1].redirect_url[1]
             key == StripPrefix(url.query.state)
             read == StoreGet(session', key[1])
         IN /\ key # Undefined
            /\ url.query.state = relayStatePrefix \o << key[1] >>
            /\ read # Undefined
            /\ read[1].id = args[c][1].connection.clientID
            /\ read[1].requested = args[c][1].requestParams
            /\ read[1].samlFederated
            /\ read[1].oidcNonce = Some(url.query.nonce)
            /\ read[1].oidcCodeVerifier # Undefined
            /\ url.query.code_challenge = CodeChallenge(read[1].oidcCodeVerifier[1])
            /\ url.query.code_challenge_method = "S256"]_vars

\* two createOIDCRequest calls returned with different verifiers: each URL's
\* state reads back the session with the verifier of its own challenge
C18_Witness ==
  \E a, b \in Callers :
    /\ a # b
    /\ Got(a, "createOIDCRequest") /\ Got(b, "createOIDCRequest")
    /\ local[a][1].oidcCodeVerifier # local[b][1].oidcCodeVerifier
    /\ \A c \in { a, b } :
         LET url == ret[c][1].value[1].redirect_url[1]
             read == StoreGet(session, StripPrefix(url.query.state)[1])
         IN /\ read # Undefined
            /\ read[1].id = "c5"
            /\ url.query.code_challenge = CodeChallenge(read[1].oidcCodeVerifier[1])
            /\ read[1].oidcCodeVerifier = Some(local[c][1].oidcCodeVerifier)
            /\ read[1].oidcNonce = Some(url.query.nonce)

Steps(c) == pc'[c] # pc[c]

\* C20: no step changes the connection store; a resolveConnection call
\* changes neither store and reads through getByIndex only, on the
\* tenant/product index and then the entity id index; no step of a
\* createSAMLResponse call changes the session store; the session store
\* changes only by the one put of a createSAMLRequest or createOIDCRequest
\* call, which adds that call's record, and no call puts a second time.
C20_Frame ==
  [][/\ connection' = connection
     /\ resolution' # resolution =>
          /\ session' = session
          /\ resolution' # Undefined =>
               resolution'[1].reads \in
                 { << >>, << TenantProduct >>, << EntityID >>,
                   << TenantProduct, EntityID >> }
     /\ \A c \in Callers :
          /\ ((In(c, "createSAMLResponse") \/ In(c, "createSAMLResponse")')
              /\ Steps(c)) => session' = session
          /\ (Drew(c) /\ local[c][1].put # "pending" /\ Steps(c))
               => session' = session
     /\ session' # session =>
          \E c \in Callers :
            /\ In(c, "createSAMLRequest") \/ In(c, "createOIDCRequest")
            /\ pc[c] = "put" /\ local[c][1].put = "pending"
            /\ local'[c][1].put = "resolved"
            /\ session' = StorePut(session, local[c][1].sessionId,
                                   local[c][1].record)
            /\ \A d \in Callers \ { c } : ~Steps(d)]_vars

\* the builder calls are made and left a session in the store; a
\* resolveConnection call has then read both indexes and returned
C20_Witness ==
  /\ session # NoKeys
  /\ Resolved
  /\ resolution[1].reads = << TenantProduct, EntityID >>
  /\ calls = MaxCalls

====
